---------------------------- MODULE Spec2Model ----------------------------
(***************************************************************************)
(* PathTracker of src/patitos/visionPatitos.py: the per-frame association  *)
(* of detections to tracks (update), as a state machine.                   *)
(*                                                                         *)
(* Python lists are sequences; list positions are 1-based here (row r of   *)
(* the model is row r-1 of the code).  A dict is a function plus, for      *)
(* self.paths, the list of its keys in insertion order (paths_keys), which *)
(* is what list(self.paths.keys()) returns.                                *)
(***************************************************************************)
EXTENDS Integers, Sequences, FiniteSets, Bags, TLC

VARIABLES
    paths,          \* self.paths: ID -> history (sequence of observations)
    paths_keys,     \* the keys of self.paths in insertion order
    disappeared,    \* self.disappeared: ID -> missed-frame counter
    next_id,        \* self.next_id
    branch,         \* which branch the last update call took
    detections,     \* the argument of the last update call
    object_ids,     \* local object_ids of the last call (general case)
    rows_idx,       \* local rows_idx when the last call returned
    cols_idx,       \* local cols_idx when the last call returned
    assigned,       \* the (row, col) pairs committed at line 68, in order
    raised,         \* the exception the last update call ended with
    frames_unmatched, \* per issued ID: consecutive calls without a detection
    points,         \* calculate_speed: the argument points
    time_diff,      \* calculate_speed: the argument time_diff
    speed           \* calculate_speed: the value returned

vars == <<paths, paths_keys, disappeared, next_id, branch, detections,
          object_ids, rows_idx, cols_idx, assigned, raised,
          frames_unmatched, points, time_diff, speed>>

-----------------------------------------------------------------------------
(* Program constants *)

max_disappeared == 10

MatchDistance == 100

(* Bounds of the model *)

MaxId == 3

MaxLive == 2

MaxAppended == 2

-----------------------------------------------------------------------------
(* Observations (x, y, confidence in percent, class).  The positions lie   *)
(* on one line through the origin, so that every pairwise Euclidean        *)
(* distance is an integer, below, at and above the matching distance:      *)
(*   (0,0)-(36,48) = 60, (36,48)-(96,128) = 100, (0,0)-(96,128) = 160.     *)
(* Two observations share the position (0,0) and differ in confidence and  *)
(* class.                                                                  *)
Observations ==
    { <<0, 0, 90, 0>>, <<0, 0, 50, 1>>, <<36, 48, 90, 0>>,
      <<96, 128, 90, 0>> }

DetectionLists ==
    UNION { [1..n -> Observations] : n \in 0..MaxLive }

-----------------------------------------------------------------------------
(* Sequences helpers *)

Range(s) == { s[k] : k \in 1..Len(s) }

Last(s) == s[Len(s)]

\* list.pop(i) for a 1-based position i: the list without that element
Pop(s, i) == [k \in 1..(Len(s) - 1) |-> IF k < i THEN s[k] ELSE s[k + 1]]

\* the elements of a set of IDs in ascending order
RECURSIVE Ascending(_)
Ascending(S) ==
    IF S = {} THEN << >>
    ELSE LET least == CHOOSE x \in S : \A y \in S : x <= y
         IN <<least>> \o Ascending(S \ {least})

\* del d[key] on the insertion-ordered key list
RemoveKey(keys, key) == SelectSeq(keys, LAMBDA k : k # key)

\* del d[key] on a function
DelKey(f, key) == [k \in (DOMAIN f) \ {key} |-> f[k]]

\* d[key] = value (insert or overwrite)
SetKey(f, key, value) ==
    [k \in (DOMAIN f) \cup {key} |-> IF k = key THEN value ELSE f[k]]


-----------------------------------------------------------------------------
(* np.linalg.norm(np.array(p[:2]) - np.array(d[:2])): the Euclidean        *)
(* distance of the two positions.  ISqrt is the integer square root; on    *)
(* the positions of Observations every squared distance is a perfect       *)
(* square, so the value is the exact distance.                             *)

ISqrt(n) == CHOOSE r \in 0..n : r * r <= n /\ (r + 1) * (r + 1) > n

Positions == { <<o[1], o[2]>> : o \in Observations }

NormTable ==
    [p \in Positions, q \in Positions |->
        ISqrt((p[1] - q[1]) * (p[1] - q[1]) + (p[2] - q[2]) * (p[2] - q[2]))]

\* o[:2]: the first two fields of an observation, fewer if it has fewer
Slice2(o) == SubSeq(o, 1, IF Len(o) < 2 THEN Len(o) ELSE 2)

\* np.array(a) - np.array(b) of two one-dimensional arrays is defined when
\* the lengths are equal or one of them is 1 (numpy broadcasting)
Broadcastable(a, b) == Len(a) = Len(b) \/ Len(a) = 1 \/ Len(b) = 1

\* the difference of two broadcastable arrays: an array of length 1 is
\* stretched to the length of the other one (also to length 0)
Difference(a, b) ==
    LET n == IF Len(a) = Len(b) THEN Len(a)
             ELSE IF Len(a) = 1 THEN Len(b) ELSE Len(a)
    IN [k \in 1..n |-> (IF Len(a) = 1 THEN a[1] ELSE a[k])
                       - (IF Len(b) = 1 THEN b[1] ELSE b[k])]

RECURSIVE SumOfSquares(_)
SumOfSquares(v) ==
    IF Len(v) = 0 THEN 0 ELSE Head(v) * Head(v) + SumOfSquares(Tail(v))

\* lines 49-51: what the expression raises, "none" when it has a value
NormRaises(prev_centroid, detection) ==
    IF Broadcastable(Slice2(prev_centroid), Slice2(detection))
    THEN "none" ELSE "ValueError"

\* lines 49-51: the value.  Two positions of Observations are looked up in
\* NormTable; any other pair of slices is computed as numpy does.
Norm(prev_centroid, detection) ==
    IF Len(prev_centroid) >= 2 /\ Len(detection) >= 2
    THEN NormTable[<<prev_centroid[1], prev_centroid[2]>>,
                   <<detection[1], detection[2]>>]
    ELSE ISqrt(SumOfSquares(Difference(Slice2(prev_centroid),
                                       Slice2(detection))))

-----------------------------------------------------------------------------
(* The values calculate_speed returns: a finite number, or one of the two  *)
(* IEEE 754 values a division by zero yields.  NotCalled is the value of   *)
(* speed before the call.                                                  *)

Finite(n) == <<"finite", n>>

Inf == <<"inf", 0>>

NaN == <<"nan", 0>>

NotCalled == <<"not_called", 0>>

-----------------------------------------------------------------------------
(* The tracker object, as a record of its fields *)

\* (raised is the exception that ended the call, "none" while it runs)
Self == [paths |-> paths, paths_keys |-> paths_keys,
         disappeared |-> disappeared, next_id |-> next_id,
         raised |-> "none"]

\* mutant of MarkDisappeared: removal one frame early (>= for >)
MarkDisappeared_OffByOne(self, obj_id) ==
    LET count == self.disappeared[obj_id] + 1 IN
    IF count >= max_disappeared
    THEN [self EXCEPT !.paths = DelKey(self.paths, obj_id),
                      !.paths_keys = RemoveKey(self.paths_keys, obj_id),
                      !.disappeared = DelKey(self.disappeared, obj_id)]
    ELSE [self EXCEPT !.disappeared[obj_id] = count]

\* mutant of MarkDisappeared: the history is deleted, the counter is kept
MarkDisappeared_KeepCounter(self, obj_id) ==
    LET count == self.disappeared[obj_id] + 1 IN
    IF count > max_disappeared
    THEN [self EXCEPT !.paths = DelKey(self.paths, obj_id),
                      !.paths_keys = RemoveKey(self.paths_keys, obj_id),
                      !.disappeared[obj_id] = count]
    ELSE [self EXCEPT !.disappeared[obj_id] = count]

\* mutant of MarkDisappeared: the counter is incremented, the track is
\* never removed
MarkDisappeared_NoRemoval(self, obj_id) ==
    [self EXCEPT !.disappeared[obj_id] = self.disappeared[obj_id] + 1]

\* lines 28-31 and 87-90: one more missed frame for obj_id, removal when
\* the counter exceeds max_disappeared.  Reading self.disappeared[obj_id]
\* (lines 28, 87) and del self.paths[obj_id] (lines 30, 89) raise KeyError
\* on a missing key; the counter is already written when the del raises.
MarkDisappeared(self, obj_id) ==
    IF obj_id \notin DOMAIN self.disappeared
    THEN [self EXCEPT !.raised = "KeyError"]
    ELSE LET count == self.disappeared[obj_id] + 1 IN
         IF count > max_disappeared
         THEN IF obj_id \notin DOMAIN self.paths
              THEN [self EXCEPT !.disappeared[obj_id] = count,
                                !.raised = "KeyError"]
              ELSE [self EXCEPT
                       !.paths = DelKey(self.paths, obj_id),
                       !.paths_keys = RemoveKey(self.paths_keys, obj_id),
                       !.disappeared = DelKey(self.disappeared, obj_id)]
         ELSE [self EXCEPT !.disappeared[obj_id] = count]

\* the for loops of lines 27 and 85 over a list of IDs; an exception ends
\* the loop
RECURSIVE MarkAllDisappeared(_, _)
MarkAllDisappeared(self, ids) ==
    IF Len(ids) = 0 \/ self.raised # "none" THEN self
    ELSE MarkAllDisappeared(MarkDisappeared(self, Head(ids)), Tail(ids))

\* mutant of Register: the new ID is the number of live tracks
Register_LenAsId(self, detection) ==
    LET id == Len(self.paths_keys) IN
    [self EXCEPT !.paths = SetKey(self.paths, id, <<detection>>),
                 !.paths_keys =
                     IF id \in DOMAIN self.paths
                     THEN self.paths_keys
                     ELSE Append(self.paths_keys, id),
                 !.disappeared = SetKey(self.disappeared, id, 0),
                 !.next_id = id + 1]

\* mutant of Register: the counter of the new track is not created
Register_NoCounter(self, detection) ==
    [self EXCEPT !.paths = SetKey(self.paths, self.next_id, <<detection>>),
                 !.paths_keys =
                     IF self.next_id \in DOMAIN self.paths
                     THEN self.paths_keys
                     ELSE Append(self.paths_keys, self.next_id),
                 !.next_id = self.next_id + 1]

\* lines 37-39 and 80-82: a new track for one detection
Register(self, detection) ==
    [self EXCEPT !.paths = SetKey(self.paths, self.next_id, <<detection>>),
                 !.paths_keys =
                     IF self.next_id \in DOMAIN self.paths
                     THEN self.paths_keys
                     ELSE Append(self.paths_keys, self.next_id),
                 !.disappeared = SetKey(self.disappeared, self.next_id, 0),
                 !.next_id = self.next_id + 1]

\* mutant of RegisterAll: the loop stops one detection early
RECURSIVE RegisterAll_SkipLast(_, _)
RegisterAll_SkipLast(self, dets) ==
    IF Len(dets) <= 1 THEN self
    ELSE RegisterAll_SkipLast(Register(self, Head(dets)), Tail(dets))

\* the for loops of lines 36 and 79 over a list of detections
RECURSIVE RegisterAll(_, _)
RegisterAll(self, dets) ==
    IF Len(dets) = 0 THEN self
    ELSE RegisterAll(Register(self, Head(dets)), Tail(dets))

-----------------------------------------------------------------------------
(* The general case, lines 42-90 *)

\* line 42: list(self.paths.keys())
ObjectIds(self) == self.paths_keys

\* line 43: self.paths[obj_id][-1] raises IndexError on an empty history
PreviousCentroidsRaises(self, ids) ==
    IF \E r \in 1..Len(ids) : Len(self.paths[ids[r]]) = 0
    THEN "IndexError" ELSE "none"

\* line 43
PreviousCentroids(self, ids) ==
    [r \in 1..Len(ids) |-> Last(self.paths[ids[r]])]

\* lines 46-51: the exception of the first entry that has no value
DistancesRaises(previous_centroids, dets) ==
    IF \E r \in 1..Len(previous_centroids), c \in 1..Len(dets) :
           NormRaises(previous_centroids[r], dets[c]) # "none"
    THEN "ValueError" ELSE "none"

\* lines 46-51
Distances(previous_centroids, dets) ==
    [r \in 1..Len(previous_centroids), c \in 1..Len(dets) |->
        Norm(previous_centroids[r], dets[c])]

\* distances[rows_idx, :][:, cols_idx], flattened in row-major order as
\* np.argmin sees it
SubMatrix(distances, rows, cols) ==
    [k \in 1..(Len(rows) * Len(cols)) |->
        distances[rows[((k - 1) \div Len(cols)) + 1],
                  cols[((k - 1) % Len(cols)) + 1]]]

\* mutant of ArgMin: the first candidate, not the smallest
ArgMin_First(flat) == 1

\* mutant of ArgMin: the last position of the smallest element
ArgMin_LastMin(flat) ==
    CHOOSE k \in 1..Len(flat) :
        /\ \A m \in 1..Len(flat) : flat[k] <= flat[m]
        /\ \A m \in (k + 1)..Len(flat) : flat[m] # flat[k]

\* mutant of ArgMin: np.argmax, the first position of the largest element
ArgMin_ArgMax(flat) ==
    CHOOSE k \in 1..Len(flat) :
        /\ \A m \in 1..Len(flat) : flat[k] >= flat[m]
        /\ \A m \in 1..(k - 1) : flat[m] # flat[k]

\* np.argmin: the first position of the smallest element
ArgMin(flat) ==
    CHOOSE k \in 1..Len(flat) :
        /\ \A m \in 1..Len(flat) : flat[k] <= flat[m]
        /\ \A m \in 1..(k - 1) : flat[m] # flat[k]

\* np.unravel_index(min_idx, (len(rows_idx), len(cols_idx)))
UnravelIndex(min_idx, ncols) ==
    <<((min_idx - 1) \div ncols) + 1, ((min_idx - 1) % ncols) + 1>>

\* mutant of Reasonable: the threshold itself is accepted (<= for <)
Reasonable_Inclusive(distance) == distance <= MatchDistance

\* line 67: the distance test of a candidate pair
Reasonable(distance) == distance < MatchDistance

\* mutant of Commit: the history keeps its last observation only
Commit_KeepLast(m, ij, ids, dets) ==
    LET row == m.rows_idx[ij[1]]
        col == m.cols_idx[ij[2]]
    IN [paths |-> [m.paths EXCEPT ![ids[row]] = <<Last(@), dets[col]>>],
        disappeared |-> SetKey(m.disappeared, ids[row], 0),
        rows_idx |-> Pop(m.rows_idx, ij[1]),
        cols_idx |-> Pop(m.cols_idx, ij[2]),
        assigned |-> Append(m.assigned, <<row, col>>)]

\* mutant of Commit: the matched track stays a candidate (no rows_idx.pop)
Commit_KeepRow(m, ij, ids, dets) ==
    LET row == m.rows_idx[ij[1]]
        col == m.cols_idx[ij[2]]
    IN [paths |-> [m.paths EXCEPT ![ids[row]] = Append(@, dets[col])],
        disappeared |-> SetKey(m.disappeared, ids[row], 0),
        rows_idx |-> m.rows_idx,
        cols_idx |-> Pop(m.cols_idx, ij[2]),
        assigned |-> Append(m.assigned, <<row, col>>)]

\* mutant of Commit: the matched detection stays a candidate (no
\* cols_idx.pop)
Commit_KeepCol(m, ij, ids, dets) ==
    LET row == m.rows_idx[ij[1]]
        col == m.cols_idx[ij[2]]
    IN [paths |-> [m.paths EXCEPT ![ids[row]] = Append(@, dets[col])],
        disappeared |-> SetKey(m.disappeared, ids[row], 0),
        rows_idx |-> Pop(m.rows_idx, ij[1]),
        cols_idx |-> m.cols_idx,
        assigned |-> Append(m.assigned, <<row, col>>)]

\* mutant of Commit: the counter of the matched track is not reset
Commit_NoReset(m, ij, ids, dets) ==
    LET row == m.rows_idx[ij[1]]
        col == m.cols_idx[ij[2]]
    IN [paths |-> [m.paths EXCEPT ![ids[row]] = Append(@, dets[col])],
        disappeared |-> m.disappeared,
        rows_idx |-> Pop(m.rows_idx, ij[1]),
        cols_idx |-> Pop(m.cols_idx, ij[2]),
        assigned |-> Append(m.assigned, <<row, col>>)]

\* lines 68-71: commit the pair (row, col) found at positions ij of
\* rows_idx and cols_idx.  m holds what the matching loop mutates: paths,
\* disappeared, rows_idx, cols_idx (and the pairs committed so far).
Commit(m, ij, ids, dets) ==
    LET row == m.rows_idx[ij[1]]
        col == m.cols_idx[ij[2]]
    IN [paths |-> [m.paths EXCEPT ![ids[row]] = Append(@, dets[col])],
        disappeared |-> SetKey(m.disappeared, ids[row], 0),
        rows_idx |-> Pop(m.rows_idx, ij[1]),
        cols_idx |-> Pop(m.cols_idx, ij[2]),
        assigned |-> Append(m.assigned, <<row, col>>)]

\* mutant of MatchLoop: the loop is left after the first commit
MatchLoop_SingleCommit(m, distances, ids, dets) ==
    IF Len(m.rows_idx) > 0 /\ Len(m.cols_idx) > 0
    THEN LET min_idx == ArgMin(SubMatrix(distances, m.rows_idx, m.cols_idx))
             ij == UnravelIndex(min_idx, Len(m.cols_idx))
             row == m.rows_idx[ij[1]]
             col == m.cols_idx[ij[2]]
         IN IF Reasonable(distances[row, col])
            THEN Commit(m, ij, ids, dets)
            ELSE m
    ELSE m

\* lines 59-76: the matching loop (the inner test of line 61 repeats the
\* loop condition)
RECURSIVE MatchLoop(_, _, _, _)
MatchLoop(m, distances, ids, dets) ==
    IF Len(m.rows_idx) > 0 /\ Len(m.cols_idx) > 0
    THEN LET min_idx == ArgMin(SubMatrix(distances, m.rows_idx, m.cols_idx))
             ij == UnravelIndex(min_idx, Len(m.cols_idx))
             row == m.rows_idx[ij[1]]
             col == m.cols_idx[ij[2]]
         IN IF Reasonable(distances[row, col])
            THEN MatchLoop(Commit(m, ij, ids, dets), distances, ids, dets)
            ELSE m
    ELSE m

\* lines 54-76
Matching(self, distances, ids, dets) ==
    LET start == [paths |-> self.paths, disappeared |-> self.disappeared,
                  rows_idx |-> [r \in 1..Len(ids) |-> r],
                  cols_idx |-> [c \in 1..Len(dets) |-> c],
                  assigned |-> << >>]
    IN IF Len(ids) * Len(dets) > 0
       THEN MatchLoop(start, distances, ids, dets)
       ELSE start

\* the list of the elements of s at the positions idx
Pick(s, idx) == [k \in 1..Len(idx) |-> s[idx[k]]]

-----------------------------------------------------------------------------
(* update(detections): the tracker after the call and the call's locals *)

Returned(self, br, ids, rows, cols, asg) ==
    [self |-> self, branch |-> br, object_ids |-> ids,
     rows_idx |-> rows, cols_idx |-> cols, assigned |-> asg]

\* line 27: list(self.disappeared.keys()).  The keys are listed in
\* ascending order; the loop handles each key on its own, so its result
\* does not depend on the order.
DisappearedKeys(self) == Ascending(DOMAIN self.disappeared)

\* mutant of UpdateNoDetections: the return sits inside the for loop, so
\* only the first key is handled
UpdateNoDetections_ReturnInLoop(self) ==
    LET keys == DisappearedKeys(self)
        first == IF Len(keys) = 0 THEN keys ELSE <<Head(keys)>>
    IN Returned(MarkAllDisappeared(self, first),
                "no_detections", << >>, << >>, << >>, << >>)

\* lines 26-32
UpdateNoDetections(self) ==
    Returned(MarkAllDisappeared(self, DisappearedKeys(self)),
             "no_detections", << >>, << >>, << >>, << >>)

\* mutant of UpdateFirst: only the first detection seeds a track
UpdateFirst_OnlyFirst(self, dets) ==
    Returned(RegisterAll(self, <<dets[1]>>),
             "first", << >>, << >>, << >>, << >>)

\* lines 35-39
UpdateFirst(self, dets) ==
    Returned(RegisterAll(self, dets), "first", << >>, << >>, << >>, << >>)

\* lines 42-51: the exception raised before the matching starts, if any;
\* the tracker is not written before line 68
UpdateGeneralRaises(self, dets) ==
    LET ids == ObjectIds(self) IN
    IF PreviousCentroidsRaises(self, ids) # "none"
    THEN PreviousCentroidsRaises(self, ids)
    ELSE DistancesRaises(PreviousCentroids(self, ids), dets)

\* lines 41-90
UpdateGeneral(self, dets) ==
    LET ids == ObjectIds(self)
        distances == Distances(PreviousCentroids(self, ids), dets)
        m == Matching(self, distances, ids, dets)
        matched == [self EXCEPT !.paths = m.paths,
                                !.disappeared = m.disappeared]
        registered == RegisterAll(matched, Pick(dets, m.cols_idx))
        marked == MarkAllDisappeared(registered, Pick(ids, m.rows_idx))
    IN IF UpdateGeneralRaises(self, dets) # "none"
       THEN Returned([self EXCEPT !.raised = UpdateGeneralRaises(self, dets)],
                     "general", ids, << >>, << >>, << >>)
       ELSE Returned(marked, "general", ids,
                     m.rows_idx, m.cols_idx, m.assigned)

\* mutant of Update: an empty frame on an idle tracker restarts the IDs
Update_RestartWhenIdle(self, dets) ==
    IF Len(dets) = 0
    THEN IF Len(self.paths_keys) = 0
         THEN UpdateNoDetections([self EXCEPT !.next_id = 0])
         ELSE UpdateNoDetections(self)
    ELSE IF Len(self.paths_keys) = 0 THEN UpdateFirst(self, dets)
    ELSE UpdateGeneral(self, dets)

\* lines 24-92
Update(self, dets) ==
    IF Len(dets) = 0 THEN UpdateNoDetections(self)
    ELSE IF Len(self.paths_keys) = 0 THEN UpdateFirst(self, dets)
    ELSE UpdateGeneral(self, dets)

-----------------------------------------------------------------------------
(* The state machine: one update call per step *)

\* the IDs that received a detection in a call (created or matched)
Touched(self, r) ==
    { id \in 0..(r.self.next_id - 1) : id >= self.next_id }
    \cup { r.object_ids[r.assigned[k][1]] : k \in 1..Len(r.assigned) }

\* consecutive calls without a detection, per issued ID; it stops counting
\* one past max_disappeared
NextUnmatched(self, r) ==
    [id \in 0..(r.self.next_id - 1) |->
        IF id \in Touched(self, r) THEN 0
        ELSE IF frames_unmatched[id] > max_disappeared
             THEN frames_unmatched[id]
             ELSE frames_unmatched[id] + 1]

\* the number of observations appended to the live tracks after their first
RECURSIVE Appended(_, _)
Appended(p, keys) ==
    IF Len(keys) = 0 THEN 0
    ELSE (Len(p[Head(keys)]) - 1) + Appended(p, Tail(keys))

WithinBounds(self) ==
    /\ self.next_id <= MaxId
    /\ Len(self.paths_keys) <= MaxLive
    /\ Appended(self.paths, self.paths_keys) <= MaxAppended

\* (an exception of update is not caught by the caller, line 199: no call
\* follows one that raised)
Call(dets) ==
    \E r \in {Update(Self, dets)} :
        /\ raised = "none"
        /\ WithinBounds(r.self)
        /\ paths' = r.self.paths
        /\ paths_keys' = r.self.paths_keys
        /\ disappeared' = r.self.disappeared
        /\ next_id' = r.self.next_id
        /\ branch' = r.branch
        /\ detections' = dets
        /\ object_ids' = r.object_ids
        /\ rows_idx' = r.rows_idx
        /\ cols_idx' = r.cols_idx
        /\ assigned' = r.assigned
        /\ raised' = r.self.raised
        /\ frames_unmatched' = NextUnmatched(Self, r)
        /\ UNCHANGED <<points, time_diff, speed>>

\* update([])
CallNoDetections == Call(<< >>)

\* Every detection of a call ends as the last observation of a live track:
\* it is appended to a track that was live or seeds a new one.  A call with
\* more detections than MaxLive, or than live tracks plus unissued IDs,
\* therefore leaves the bounds, whatever it matches.
Room ==
    LET ids == Len(paths_keys) + (MaxId - next_id)
    IN IF ids < MaxLive THEN ids ELSE MaxLive

\* update(detections) with no live track
CallFirst ==
    /\ Len(paths_keys) = 0
    /\ \E n \in 1..Room : \E dets \in [1..n -> Observations] : Call(dets)

\* update(detections) with live tracks
CallGeneral ==
    /\ Len(paths_keys) > 0
    /\ \E n \in 1..Room : \E dets \in [1..n -> Observations] : Call(dets)

\* lines 18-22
Init ==
    /\ paths = << >>
    /\ paths_keys = << >>
    /\ disappeared = << >>
    /\ next_id = 0
    /\ branch = "init"
    /\ detections = << >>
    /\ object_ids = << >>
    /\ rows_idx = << >>
    /\ cols_idx = << >>
    /\ assigned = << >>
    /\ raised = "none"
    /\ frames_unmatched = << >>
    /\ points = << >>
    /\ time_diff = 1
    /\ speed = NotCalled

Next == CallNoDetections \/ CallFirst \/ CallGeneral

Spec == Init /\ [][Next]_vars

TypeOK ==
    /\ DOMAIN paths \subseteq 0..MaxId
    /\ \A id \in DOMAIN paths : paths[id] \in Seq(Observations)
    /\ next_id \in 0..MaxId
    /\ branch \in {"init", "no_detections", "first", "general"}
    /\ detections \in DetectionLists

-----------------------------------------------------------------------------
(* update on observations that may lack position fields.  update does not  *)
(* inspect its argument (lines 24-39), so a caller can pass tuples with    *)
(* fewer than two fields; here one with a single field and the empty one,  *)
(* next to one observation with a position.                                *)

MalformedObservations == { <<0>>, << >> }

AnyObservations == { <<0, 0, 90, 0>> } \cup MalformedObservations

\* update(detections) with no live track, any observations
CallFirstAny ==
    /\ Len(paths_keys) = 0
    /\ \E n \in 1..Room : \E dets \in [1..n -> AnyObservations] : Call(dets)

\* update(detections) with live tracks, any observations
CallGeneralAny ==
    /\ Len(paths_keys) > 0
    /\ \E n \in 1..Room : \E dets \in [1..n -> AnyObservations] : Call(dets)

NextAny == CallNoDetections \/ CallFirstAny \/ CallGeneralAny

SpecAny == Init /\ [][NextAny]_vars

-----------------------------------------------------------------------------
(* calculate_speed(points, time_diff), lines 95-101.  The points lie on    *)
(* one line through the origin at distances that are multiples of 10, so   *)
(* that np.hypot is an integer and the quotient by 1 or 2 is exact.        *)
(* np.hypot returns a numpy float64; dividing a float64 by zero does not   *)
(* raise: the value is inf for a positive dividend and nan for 0           *)
(* (IEEE 754, with a RuntimeWarning).                                      *)

MaxPoints == 3

SpeedPoints == { <<0, 0>>, <<6, 8>>, <<12, 16>> }

PointLists == UNION { [1..n -> SpeedPoints] : n \in 0..MaxPoints }

TimeDiffs == { 0, 1, 2 }

\* np.hypot(dx, dy)
Hypot(dx, dy) == ISqrt(dx * dx + dy * dy)

\* distance / time_diff for a float64 distance >= 0
Divide(distance, td) ==
    IF td = 0
    THEN IF distance = 0 THEN NaN ELSE Inf
    ELSE Finite(distance \div td)

\* lines 95-101
calculate_speed(pts, td) ==
    IF Len(pts) < 2 THEN Finite(0)
    ELSE LET p1 == pts[Len(pts) - 1]
             p2 == pts[Len(pts)]
             distance == Hypot(p2[1] - p1[1], p2[2] - p1[2])
         IN Divide(distance, td)

\* one call of calculate_speed on the arguments chosen initially
CallSpeed ==
    /\ speed = NotCalled
    /\ speed' = calculate_speed(points, time_diff)
    /\ UNCHANGED <<paths, paths_keys, disappeared, next_id, branch,
                   detections, object_ids, rows_idx, cols_idx, assigned,
                   raised, frames_unmatched, points, time_diff>>

InitSpeed ==
    /\ paths = << >>
    /\ paths_keys = << >>
    /\ disappeared = << >>
    /\ next_id = 0
    /\ branch = "init"
    /\ detections = << >>
    /\ object_ids = << >>
    /\ rows_idx = << >>
    /\ cols_idx = << >>
    /\ assigned = << >>
    /\ raised = "none"
    /\ frames_unmatched = << >>
    /\ points \in PointLists
    /\ time_diff \in TimeDiffs
    /\ speed = NotCalled

NextSpeed == CallSpeed

SpecSpeed == InitSpeed /\ [][NextSpeed]_vars

-----------------------------------------------------------------------------
(* Vocabulary of the properties *)

Live == DOMAIN paths

\* the squared Euclidean distance of two observations' positions, stated
\* without the operators of the model
DistSq(a, b) ==
    (a[1] - b[1]) * (a[1] - b[1]) + (a[2] - b[2]) * (a[2] - b[2])

BelowThreshold(a, b) == DistSq(a, b) < 100 * 100

\* the IDs of the tracks matched by the last call
MatchedIds == { object_ids[assigned[k][1]] : k \in 1..Len(assigned) }

\* In a step of the general case: the squared distance between the last
\* observation that track row r had on entry and detection c of the call
EntryDistSq(r, c) ==
    DistSq(Last(paths[object_ids'[r]]), detections'[c])

\* In a step of the general case: the rows and the columns still unmatched
\* when commit number k is made
RowsLeftAt(k) ==
    { r \in 1..Len(object_ids') : \A n \in 1..(k - 1) : assigned'[n][1] # r }

ColsLeftAt(k) ==
    { c \in 1..Len(detections') : \A n \in 1..(k - 1) : assigned'[n][2] # c }

-----------------------------------------------------------------------------
\* C1: an ID issued to a track is never issued again: in every update call
\* next_id does not decrease, every ID in the mapping before and after the
\* call is below next_id, and every ID that enters the mapping is at least
\* the next_id of the call's entry (so above every ID issued before, also
\* those of removed tracks).
C1_IdsNeverReissued ==
    [][ /\ next_id' >= next_id
        /\ \A id \in DOMAIN paths : id < next_id
        /\ \A id \in DOMAIN paths' : id < next_id'
        /\ \A id \in (DOMAIN paths') \ (DOMAIN paths) : id >= next_id
      ]_vars

\* C1 witness: tracks 0 and 1 were removed and a later call on the empty
\* tracker created track 2.
C1_Witness ==
    /\ branch = "first"
    /\ next_id = 3
    /\ DOMAIN paths = {2}

\* C2: the matching of one frame is 1:1 and restricted to the tracks that
\* were live when the call was entered: the committed pairs have pairwise
\* different tracks and pairwise different detections, each committed pair
\* appended its detection to its track, and no other pre-existing track's
\* history changed.
C2_OneToOneMatching ==
    [][ branch' = "general" =>
          /\ object_ids' = paths_keys
          /\ \A k \in 1..Len(assigned') :
                /\ assigned'[k][1] \in 1..Len(object_ids')
                /\ assigned'[k][2] \in 1..Len(detections')
                /\ paths'[object_ids'[assigned'[k][1]]] =
                     Append(paths[object_ids'[assigned'[k][1]]],
                            detections'[assigned'[k][2]])
          /\ \A k, l \in 1..Len(assigned') :
                k # l => /\ assigned'[k][1] # assigned'[l][1]
                         /\ assigned'[k][2] # assigned'[l][2]
          /\ \A id \in (DOMAIN paths) \cap (DOMAIN paths') :
                (\A k \in 1..Len(assigned') :
                     object_ids'[assigned'[k][1]] # id)
                => paths'[id] = paths[id]
      ]_vars

\* C2 witness: a call that matched two detections to two tracks.
C2_Witness ==
    /\ branch = "general"
    /\ Len(assigned) = 2

\* C3: a track is in the mapping as long as the number of consecutive calls
\* in which it received no detection is at most max_disappeared, and it is
\* absent from the mapping once that number has reached max_disappeared + 1
\* and from then on.
C3_RemovedAfterMaxDisappeared ==
    \A id \in 0..(next_id - 1) :
        /\ id \in DOMAIN frames_unmatched
        /\ frames_unmatched[id] <= max_disappeared => id \in DOMAIN paths
        /\ frames_unmatched[id] > max_disappeared => id \notin DOMAIN paths

\* C3 witness: one track was removed after max_disappeared + 1 unmatched
\* calls while another track is still live at its max_disappeared-th.
C3_Witness ==
    \E id, other \in 0..(next_id - 1) :
        /\ frames_unmatched[id] = max_disappeared + 1
        /\ id \notin DOMAIN paths
        /\ frames_unmatched[other] = max_disappeared
        /\ other \in DOMAIN paths

\* C4: after every call the counter of every live track is in
\* 0..max_disappeared, and a track leaves the mapping only in a call that
\* it entered with counter max_disappeared and in which it was not matched.
C4_CounterInRange ==
    [][ /\ DOMAIN disappeared' = DOMAIN paths'
        /\ \A id \in DOMAIN paths' :
              disappeared'[id] \in 0..max_disappeared
        /\ \A id \in (DOMAIN paths) \ (DOMAIN paths') :
              /\ disappeared[id] = max_disappeared
              /\ \A k \in 1..Len(assigned') :
                    object_ids'[assigned'[k][1]] # id
      ]_vars

\* C4 witness: a track at counter max_disappeared is live after a call that
\* removed another track.
C4_Witness ==
    /\ \E id \in DOMAIN paths : disappeared[id] = max_disappeared
    /\ \E id \in 0..(next_id - 1) : id \notin DOMAIN paths
    /\ Len(paths_keys) = 1
    /\ branch = "no_detections"

\* C5: a call with N >= 1 detections on a tracker without live tracks
\* yields exactly the N tracks next_id .. next_id + N - 1 (0 .. N - 1 on a
\* fresh tracker), the k-th for the k-th detection of the list, each with
\* that detection as its whole history and counter 0.
C5_ColdStart ==
    [][ (DOMAIN paths = {} /\ Len(detections') >= 1) =>
          LET n == Len(detections') IN
          /\ next_id' = next_id + n
          /\ DOMAIN paths' = next_id..(next_id + n - 1)
          /\ DOMAIN disappeared' = next_id..(next_id + n - 1)
          /\ \A k \in 1..n :
                /\ paths'[next_id + k - 1] = <<detections'[k]>>
                /\ disappeared'[next_id + k - 1] = 0
      ]_vars

\* C5 witness: after track 0 was removed, a call with two detections on the
\* empty tracker created the tracks 1 and 2.
C5_Witness ==
    /\ branch = "first"
    /\ Len(detections) = 2
    /\ DOMAIN paths = {1, 2}
    /\ paths[1] = <<detections[1]>>
    /\ paths[2] = <<detections[2]>>

\* C6: with one live track and one detection, the detection is appended to
\* the track (counter reset, no new track) exactly when its Euclidean
\* distance from the track's last position is strictly below 100; at 100 or
\* more it seeds a new track and the old track's counter is incremented
\* (the track being removed when the counter thereby exceeds
\* max_disappeared).
C6_StrictThreshold ==
    [][ (Len(paths_keys) = 1 /\ Len(detections') = 1) =>
          LET id == paths_keys[1]
              det == detections'[1]
          IN IF BelowThreshold(Last(paths[id]), det)
             THEN /\ DOMAIN paths' = {id}
                  /\ paths'[id] = Append(paths[id], det)
                  /\ disappeared'[id] = 0
                  /\ next_id' = next_id
             ELSE /\ next_id' = next_id + 1
                  /\ next_id \in DOMAIN paths'
                  /\ paths'[next_id] = <<det>>
                  /\ disappeared'[next_id] = 0
                  /\ IF disappeared[id] < max_disappeared
                     THEN /\ DOMAIN paths' = {id, next_id}
                          /\ paths'[id] = paths[id]
                          /\ disappeared'[id] = disappeared[id] + 1
                     ELSE DOMAIN paths' = {next_id}
      ]_vars

\* C6 witness: one live track, one detection at distance exactly 100 from
\* its last position, left unmatched.
C6_Witness ==
    /\ branch = "general"
    /\ Len(object_ids) = 1
    /\ Len(detections) = 1
    /\ assigned = << >>
    /\ object_ids[1] \in DOMAIN paths
    /\ DistSq(Last(paths[object_ids[1]]), detections[1]) = 100 * 100

\* C7: in every call, the history of a track that stays live is unchanged
\* or is its former history with one detection of the frame appended.
C7_AppendOnly ==
    [][ \A id \in (DOMAIN paths) \cap (DOMAIN paths') :
          \/ paths'[id] = paths[id]
          \/ \E c \in 1..Len(detections') :
                paths'[id] = Append(paths[id], detections'[c])
      ]_vars

\* C7 witness: a track that was matched in two calls (three observations).
C7_Witness ==
    \E id \in DOMAIN paths :
        /\ Len(paths[id]) = 3
        /\ disappeared[id] = 0
        /\ id \in MatchedIds

\* what a call did, with the IDs of the new tracks left out: the histories
\* and counters of the tracks that were live before and still are, the
\* tracks removed, the histories of the tracks created (with multiplicity)
\* and the number of IDs issued
Outcome(before, after) ==
    LET created == (DOMAIN after.paths) \ (DOMAIN before.paths) IN
    [kept |-> [id \in (DOMAIN before.paths) \cap (DOMAIN after.paths) |->
                  <<after.paths[id], after.disappeared[id]>>],
     removed |-> (DOMAIN before.paths) \ (DOMAIN after.paths),
     created |-> [h \in { after.paths[id] : id \in created } |->
                     Cardinality({ id \in created : after.paths[id] = h })],
     issued |-> after.next_id - before.next_id]

\* the list dets reordered by the permutation p of its positions
Permuted(dets, p) == [k \in 1..Len(dets) |-> dets[p[k]]]

\* no live track is at the same distance below 100 from two different
\* detections of dets
NoTies(self, dets) ==
    \A id \in DOMAIN self.paths : \A a, b \in 1..Len(dets) :
        ( /\ dets[a] # dets[b]
          /\ DistSq(Last(self.paths[id]), dets[a])
               = DistSq(Last(self.paths[id]), dets[b]) )
        => ~BelowThreshold(Last(self.paths[id]), dets[a])

C9_NoPairLeftBelowThreshold ==
    [][ branch' = "general" =>
          \A r \in Range(rows_idx') : \A c \in Range(cols_idx') :
              /\ r \in 1..Len(paths_keys)
              /\ c \in 1..Len(detections')
              /\ ~BelowThreshold(Last(paths[paths_keys[r]]), detections'[c])
      ]_vars

\* C9 witness: the matching loop committed a pair and then left by the
\* early exit, with a track and a detection remaining.
C9_Witness ==
    /\ branch = "general"
    /\ Len(assigned) >= 1
    /\ Len(rows_idx) >= 1
    /\ Len(cols_idx) >= 1

\* the positions of dets that no committed pair of asg names, in list order
UnmatchedCols(dets, asg) ==
    SelectSeq([k \in 1..Len(dets) |-> k],
              LAMBDA c : \A k \in 1..Len(asg) : asg[k][2] # c)

\* C10: in a call with at least one detection, the k-th detection that no
\* committed pair names becomes the track next_id + k - 1 (one-element
\* history, counter 0), next_id grows by the number of those detections,
\* and the detections of the frame are, counted with multiplicity, the last
\* observations of the live tracks with counter 0.
C10_UnmatchedBecomeTracks ==
    [][ Len(detections') >= 1 =>
          LET un == UnmatchedCols(detections', assigned')
              fresh == { id \in DOMAIN paths' : disappeared'[id] = 0 }
          IN /\ next_id' = next_id + Len(un)
             /\ \A k \in 1..Len(un) :
                   /\ (next_id + k - 1) \in DOMAIN paths'
                   /\ paths'[next_id + k - 1] = <<detections'[un[k]]>>
                   /\ disappeared'[next_id + k - 1] = 0
             /\ \A v \in Observations :
                   Cardinality({ k \in 1..Len(detections') :
                                    detections'[k] = v })
                   = Cardinality({ id \in fresh : Last(paths'[id]) = v })
      ]_vars

\* C10 witness: a call with two detections, one matched to a live track and
\* one seeding a new track.
C10_Witness ==
    /\ branch = "general"
    /\ Len(detections) = 2
    /\ Len(assigned) = 1
    /\ Len(cols_idx) = 1
    /\ (next_id - 1) \in DOMAIN paths
    /\ paths[next_id - 1] = <<detections[cols_idx[1]]>>

\* C11: an update call with no detection creates no track and leaves
\* next_id and every surviving history unchanged: the tracks removed are
\* exactly those whose counter was at max_disappeared (history and counter
\* go together), and every other track keeps its history and has its
\* counter incremented by one.
C11_EmptyFrameEffect ==
    [][ Len(detections') = 0 =>
          /\ next_id' = next_id
          /\ DOMAIN paths' =
                { id \in DOMAIN paths : disappeared[id] + 1 <= max_disappeared }
          /\ DOMAIN disappeared' = DOMAIN paths'
          /\ paths_keys' = SelectSeq(paths_keys,
                                     LAMBDA id : id \in DOMAIN paths')
          /\ \A id \in DOMAIN paths' :
                /\ paths'[id] = paths[id]
                /\ disappeared'[id] = disappeared[id] + 1
      ]_vars

\* C11 witness: an empty frame removed track 0 (its eleventh missed frame)
\* and left track 1 live at counter 10.
C11_Witness ==
    /\ branch = "no_detections"
    /\ DOMAIN paths = {1}
    /\ disappeared[1] = max_disappeared
    /\ frames_unmatched[0] = max_disappeared + 1

\* C12: update([]) on a tracker with no live track returns the empty
\* mapping, raises nothing and leaves paths, the counters and next_id as
\* they were, however often it is repeated.
C12_EmptyFrameOnIdleTracker ==
    [][ (Len(detections') = 0 /\ DOMAIN paths = {}) =>
          /\ paths' = << >>
          /\ paths' = paths
          /\ disappeared' = disappeared
          /\ next_id' = next_id
          /\ raised' = "none"
      ]_vars

\* C12 witness: update([]) was called on a tracker that never held a
\* track.
C12_Witness ==
    /\ branch = "no_detections"
    /\ next_id = 0
    /\ DOMAIN paths = {}
    /\ DOMAIN disappeared = {}
    /\ raised = "none"

\* C13: no update call on observations with a position raises: the call
\* ends without an exception (every read of a counter, every deletion of a
\* history and every read of a last observation finds its entry), and the
\* indices it used name existing rows, columns, tracks and detections.
C13_NoCallRaises ==
    /\ raised = "none"
    /\ \A k \in 1..Len(assigned) :
          /\ assigned[k][1] \in 1..Len(object_ids)
          /\ assigned[k][2] \in 1..Len(detections)
    /\ \A k \in 1..Len(rows_idx) : rows_idx[k] \in 1..Len(object_ids)
    /\ \A k \in 1..Len(cols_idx) : cols_idx[k] \in 1..Len(detections)
    /\ \A id \in DOMAIN paths : Len(paths[id]) >= 1

\* C13 witness: one general-case call matched a track, created a track and
\* removed a track, and raised nothing; calls of the two other cases came
\* before it.
C13_Witness ==
    /\ branch = "general"
    /\ raised = "none"
    /\ Len(assigned) = 1
    /\ Len(cols_idx) = 1
    /\ Len(rows_idx) = 1
    /\ object_ids[rows_idx[1]] \notin DOMAIN paths
    /\ frames_unmatched[object_ids[rows_idx[1]]] = max_disappeared + 1

\* C14: calculate_speed on at least two points and a time difference of
\* zero returns 0.
C14_ZeroTimeDiffReturnsZero ==
    (speed # NotCalled /\ Len(points) >= 2 /\ time_diff = 0)
        => speed = Finite(0)

\* C15: an update call whose detections include an observation with fewer
\* than two coordinates ends with InvalidInput and leaves paths, the
\* counters and next_id as they were.
C15_MalformedObservationRejected ==
    [][ (\E k \in 1..Len(detections') : Len(detections'[k]) < 2) =>
          /\ raised' = "InvalidInput"
          /\ paths' = paths
          /\ disappeared' = disappeared
          /\ next_id' = next_id
      ]_vars

\* C16: every pair committed in a frame has, when it is committed, the
\* smallest distance among all pairs of a track and a detection still
\* unmatched at that moment; so the distances of a frame's matches never
\* decrease in commit order.
C16_CommitsSmallestRemaining ==
    [][ branch' = "general" =>
          /\ \A k \in 1..Len(assigned') :
                \A r \in RowsLeftAt(k), c \in ColsLeftAt(k) :
                    EntryDistSq(assigned'[k][1], assigned'[k][2])
                        <= EntryDistSq(r, c)
          /\ \A k \in 1..(Len(assigned') - 1) :
                EntryDistSq(assigned'[k][1], assigned'[k][2])
                    <= EntryDistSq(assigned'[k + 1][1], assigned'[k + 1][2])
      ]_vars

\* C16 witness: a frame with two commits, the second at a larger distance
\* than the first (each matched history ends with the track's previous
\* position and the detection appended to it).
C16_Witness ==
    /\ branch = "general"
    /\ Len(assigned) = 2
    /\ LET h1 == paths[object_ids[assigned[1][1]]]
           h2 == paths[object_ids[assigned[2][1]]]
       IN DistSq(h1[Len(h1) - 1], h1[Len(h1)])
              < DistSq(h2[Len(h2) - 1], h2[Len(h2)])

\* C17: after every call the counter of every live track is the number of
\* consecutive most recent calls that gave the track no detection since it
\* was created or last matched: it is 0 for a track created or matched by
\* the call, and one more than before for every other live track.
C17_CounterCountsMissedCalls ==
    [][ \A id \in DOMAIN disappeared' :
          /\ disappeared'[id] = frames_unmatched'[id]
          /\ (id \notin DOMAIN disappeared) => disappeared'[id] = 0
          /\ (id \in DOMAIN disappeared) =>
                disappeared'[id] =
                    IF \E k \in 1..Len(assigned') :
                           object_ids'[assigned'[k][1]] = id
                    THEN 0
                    ELSE disappeared[id] + 1
      ]_vars

\* C17 witness: a general-case call matched one track while another live
\* track missed its second call in a row.
C17_Witness ==
    /\ branch = "general"
    /\ Len(assigned) = 1
    /\ Len(rows_idx) = 1
    /\ object_ids[rows_idx[1]] \in DOMAIN disappeared
    /\ disappeared[object_ids[rows_idx[1]]] = 2
    /\ disappeared[object_ids[assigned[1][1]]] = 0

\* C18: ties are broken by position: among the unmatched pairs at the
\* smallest remaining distance, the committed pair is the one whose track
\* has the smallest ID and, among those of that track, whose detection
\* comes first in the list.  (update is a function of the tracker and the
\* list, so equal call sequences give equal states.)
C18_TiesBrokenByIdThenPosition ==
    [][ branch' = "general" =>
          \A k \in 1..Len(assigned') :
              LET row == assigned'[k][1]
                  col == assigned'[k][2]
              IN \A r \in RowsLeftAt(k), c \in ColsLeftAt(k) :
                    EntryDistSq(r, c) = EntryDistSq(row, col) =>
                        \/ object_ids'[row] < object_ids'[r]
                        \/ (row = r /\ col <= c)
      ]_vars

\* C18 witness: two live tracks were at the same distance from the only
\* detection of the frame; the first one got it, the second one is still
\* live and unmatched.
C18_Witness ==
    /\ branch = "general"
    /\ Len(object_ids) = 2
    /\ Len(detections) = 1
    /\ assigned = << <<1, 1>> >>
    /\ rows_idx = <<2>>
    /\ object_ids[2] \in DOMAIN paths
    /\ LET h == paths[object_ids[1]]
       IN DistSq(h[Len(h) - 1], detections[1])
              = DistSq(Last(paths[object_ids[2]]), detections[1])

\* C19: the matching loop ends after at most min(live tracks, detections)
\* commits: every commit takes one track out of rows_idx and one detection
\* out of cols_idx, so when the loop is left each list has lost exactly as
\* many elements as there were commits.
C19_LoopBoundedByCandidates ==
    [][ branch' = "general" =>
          /\ Len(assigned') <= Len(paths_keys)
          /\ Len(assigned') <= Len(detections')
          /\ Len(rows_idx') = Len(paths_keys) - Len(assigned')
          /\ Len(cols_idx') = Len(detections') - Len(assigned')
      ]_vars

\* C19 witness: the loop ran until both lists were empty, two tracks and
\* two detections, two commits.
C19_Witness ==
    /\ branch = "general"
    /\ Len(object_ids) = 2
    /\ Len(detections) = 2
    /\ Len(assigned) = 2
    /\ rows_idx = << >>
    /\ cols_idx = << >>

\* C20: after every call the tracks with a history are exactly the tracks
\* with a counter, and no history is empty (a track's history and counter
\* are created together and deleted together).
C20_HistoryAndCounterTogether ==
    /\ DOMAIN paths = DOMAIN disappeared
    /\ Range(paths_keys) = DOMAIN paths
    /\ \A id \in DOMAIN paths : paths[id] # << >>

\* C20 witness: track 0 was removed (history and counter) and track 1 was
\* then created on the empty tracker.
C20_Witness ==
    /\ branch = "first"
    /\ next_id = 2
    /\ DOMAIN paths = {1}
    /\ DOMAIN disappeared = {1}
    /\ frames_unmatched[0] = max_disappeared + 1

=============================================================================
